---------------------------- MODULE Spec2Model ----------------------------
(***************************************************************************)
(* A model of 0x02-redis_basic: exercise.py (Cache, count_calls,           *)
(* call_history, replay) and web.py (get_page with a 10 second cache and   *)
(* an access counter).  All durable state lives in one Redis database      *)
(* (redis.Redis() with the default host and db in both files).             *)
(*                                                                         *)
(* Every Redis command is one atomic step.  A Python call that issues      *)
(* several commands is a sequence of steps of one caller, whose position   *)
(* is pc[c].                                                               *)
(***************************************************************************)
EXTENDS Integers, Sequences, FiniteSets, TLC

(***************************************************************************)
(* Bounds of the model.                                                    *)
(***************************************************************************)
MaxCalls == 3       \* calls of Cache.store over one behaviour (uuid's drawn)
MaxAccess == 3      \* get_page calls between two flushdb's
MaxResets == 1      \* flushdb's over one behaviour
MaxOps == 2         \* calls of store and of get_page where both modules run

Callers == {"c1", "c2"}
SeqCallers == {"c1"}
URLs == {"u1", "u2"}

(***************************************************************************)
(* Python values.  One record shape for all of them: t is the type, s the  *)
(* characters of a str or bytes, n the number of an int; a float is n      *)
(* tenths (15 is 1.5).  Exceptions reaching the caller are values too.     *)
(***************************************************************************)
PyNone == [t |-> "none", s |-> <<>>, n |-> 0]
PyStr(s) == [t |-> "str", s |-> s, n |-> 0]
PyBytes(s) == [t |-> "bytes", s |-> s, n |-> 0]
PyInt(n) == [t |-> "int", s |-> <<>>, n |-> n]
PyFloat(tenths) == [t |-> "float", s |-> <<>>, n |-> tenths]
PyList == [t |-> "list", s |-> <<>>, n |-> 0]
Raised(e) == [t |-> e, s |-> <<>>, n |-> 0]
Pending == [t |-> "pending", s |-> <<>>, n |-> 0]

Exceptions == {"DataError", "ValueError", "UnicodeDecodeError", "RequestException"}

\* the arguments the callers pass to store: text, binary, integers, a
\* float, and a value of a type the Redis client refuses
StoreArgs ==
    { PyStr(<<"n", "o">>), PyStr(<<"4", "2">>), PyBytes(<<"n", "o">>),
      PyInt(42), PyInt(-7), PyFloat(15), PyList }

\* the bodies an HTTP GET can return (response.text); the empty page is one
Bodies == { <<>>, <<"a">> }

Digits == <<"0", "1", "2", "3", "4", "5", "6", "7", "8", "9">>
DigitSet == {Digits[i] : i \in 1..10}

RECURSIVE DecStr(_)
DecStr(n) ==
    IF n < 10 THEN <<Digits[n + 1]>>
    ELSE DecStr(n \div 10) \o <<Digits[(n % 10) + 1]>>

\* str(int) / repr(int)
IntStr(n) == IF n < 0 THEN <<"-">> \o DecStr(-n) ELSE DecStr(n)

\* repr(float) of a float with one decimal
FloatStr(tenths) ==
    LET a == IF tenths < 0 THEN -tenths ELSE tenths
    IN  (IF tenths < 0 THEN <<"-">> ELSE <<>>)
        \o DecStr(a \div 10) \o <<".">> \o <<Digits[(a % 10) + 1]>>

\* repr(v) of an argument
Repr(v) ==
    CASE v.t = "str" -> <<"'">> \o v.s \o <<"'">>
      [] v.t = "bytes" -> <<"b", "'">> \o v.s \o <<"'">>
      [] v.t = "int" -> IntStr(v.n)
      [] v.t = "float" -> FloatStr(v.n)
      [] v.t = "list" -> <<"[", "]">>
      [] OTHER -> <<"None">>

\* str(args) of the one-element tuple args = (data,)
StrArgs(data) == <<"(">> \o Repr(data) \o <<",", ")">>

\* what the Redis client accepts as a value: bytes, str, int, float
Storable(v) == v.t \in {"str", "bytes", "int", "float"}

\* the client's encoding of a value to the bytes Redis stores
Encode(v) ==
    CASE v.t = "bytes" -> v.s
      [] v.t = "str" -> v.s
      [] v.t = "int" -> IntStr(v.n)
      [] v.t = "float" -> FloatStr(v.n)


DigitVal(ch) == CHOOSE d \in 0..9 : Digits[d + 1] = ch

RECURSIVE DecVal(_)
DecVal(s) ==
    IF Len(s) = 1 THEN DigitVal(s[1])
    ELSE 10 * DecVal(SubSeq(s, 1, Len(s) - 1)) + DigitVal(s[Len(s)])

\* the digits of an integer literal after its optional sign
Unsigned(s) == IF s # <<>> /\ s[1] \in {"-", "+"} THEN Tail(s) ELSE s

IsIntLiteral(s) ==
    /\ Unsigned(s) # <<>>
    /\ \A i \in 1..Len(Unsigned(s)) : Unsigned(s)[i] \in DigitSet

\* int(b): the integer a byte string spells, or ValueError
PyIntOf(v) ==
    IF IsIntLiteral(v.s)
    THEN PyInt(IF v.s[1] = "-" THEN -DecVal(Unsigned(v.s)) ELSE DecVal(Unsigned(v.s)))
    ELSE Raised("ValueError")

\* d.decode("utf-8"): the text of a byte string, or UnicodeDecodeError on a
\* byte that is no UTF-8 ("xff" stands for such a byte)
PyDecode(v) ==
    IF \E i \in 1..Len(v.s) : v.s[i] = "xff"
    THEN Raised("UnicodeDecodeError")
    ELSE PyStr(v.s)

(***************************************************************************)
(* The Redis database: string values, lists and times to live, by key.     *)
(* A key is the sequence of the tokens of its name.                        *)
(***************************************************************************)
VARIABLES
    strs,       \* key -> bytes, the string values
    lists,      \* key -> sequence of bytes, the lists
    ttls,       \* key -> seconds left, for the keys that expire
    pc,         \* caller -> the place of the caller in its operation
    arg,        \* caller -> the argument of its call of store
    key,        \* caller -> the key store() drew, <<>> before
    url,        \* caller -> the URL of its call of get_page
    fetched,    \* caller -> the body its HTTP GET returned
    result,     \* caller -> what its latest operation returned or raised
    out,        \* what the latest operation printed
    drawn,      \* the number of uuid4() keys drawn
    log,        \* history: the calls of store since the last flushdb
    mine,       \* history: caller -> the index in log of its call
    accesses,   \* history: URL -> get_page calls since the last flushdb
    nfetch,     \* history: caller -> HTTP GETs of its latest get_page
    expect,     \* history: caller -> the body cached when it looked
    written,    \* history: URL -> the body a miss cached, and its age
    resets,     \* history: the number of flushdb's
    last        \* history: the operation of the latest step

vars == <<strs, lists, ttls, pc, arg, key, url, fetched, result, out,
          drawn, log, mine, accesses, nfetch, expect, written, resets, last>>

cacheVars == <<arg, key, drawn, log, mine>>
webVars == <<url, fetched, accesses, nfetch, expect, written>>

Empty == [k \in {} |-> <<>>]

\* method.__qualname__ of the decorated method
QualName == <<"Cache.store">>
InputsKey == <<"Cache.store", ":inputs">>
OutputsKey == <<"Cache.store", ":outputs">>
CountKey(u) == <<"count:", u>>
CacheKey(u) == <<"cache:", u>>

\* a uuid4 that is the same string at every draw
KeyStrFixed(i) == <<"k", Digits[2]>>

\* str(uuid.uuid4()): the i-th key drawn; every draw is a new key
KeyStr(i) == <<"k", Digits[i + 1]>>

Without(f, k) == [x \in DOMAIN f \ {k} |-> f[x]]

\* GET k: the one-element sequence of the value, or <<>> for no key
RedisGet(k) == IF k \in DOMAIN strs THEN <<strs[k]>> ELSE <<>>

\* INCR k: the string value after it
RedisIncr(k) ==
    IF k \in DOMAIN strs
    THEN (k :> IntStr(PyIntOf(PyBytes(strs[k])).n + 1)) @@ strs
    ELSE (k :> <<"1">>) @@ strs

\* LPUSH k v in the place of RPUSH: the list grows at its head
RedisLPush(k, v) ==
    IF k \in DOMAIN lists
    THEN (k :> (<<v>> \o lists[k])) @@ lists
    ELSE (k :> <<v>>) @@ lists

\* RPUSH k v
RedisRPush(k, v) ==
    IF k \in DOMAIN lists
    THEN (k :> Append(lists[k], v)) @@ lists
    ELSE (k :> <<v>>) @@ lists

\* LRANGE k 0 -1
RedisLRange(k) == IF k \in DOMAIN lists THEN lists[k] ELSE <<>>

Last(name, c, k, n) == [name |-> name, c |-> c, k |-> k, n |-> n]

Init ==
    /\ strs = Empty
    /\ lists = Empty
    /\ ttls = Empty
    /\ pc = [c \in Callers |-> "idle"]
    /\ arg = [c \in Callers |-> PyNone]
    /\ key = [c \in Callers |-> <<>>]
    /\ url = [c \in Callers |-> "u1"]
    /\ fetched = [c \in Callers |-> <<>>]
    /\ result = [c \in Callers |-> Pending]
    /\ out = <<>>
    /\ drawn = 0
    /\ log = <<>>
    /\ mine = [c \in Callers |-> 0]
    /\ accesses = [u \in URLs |-> 0]
    /\ nfetch = [c \in Callers |-> 0]
    /\ expect = [c \in Callers |-> <<>>]
    /\ written = Empty
    /\ resets = 0
    /\ last = Last("init", "c1", <<>>, 0)

(***************************************************************************)
(* exercise.py                                                             *)
(***************************************************************************)
NotDrawn == {d \in Callers : pc[d] \in {"cc_incr", "st_set"}}

\* the history entry of the call of c, once the call has ended
Ended(c, status, k) ==
    IF mine[c] = 0 THEN log
    ELSE [log EXCEPT ![mine[c]] = [@ EXCEPT !.status = status, !.key = k]]

\* call_history.wrapper entered without the RPUSH of str(args)
StoreCallNoPush(c, data) ==
    /\ pc[c] = "idle"
    /\ drawn + Cardinality(NotDrawn) < MaxCalls
    /\ pc' = [pc EXCEPT ![c] = "cc_incr"]
    /\ arg' = [arg EXCEPT ![c] = data]
    /\ result' = [result EXCEPT ![c] = Pending]
    /\ out' = <<>>
    /\ log' = Append(log, [data |-> data, key |-> <<>>, status |-> "running"])
    /\ mine' = [mine EXCEPT ![c] = Len(log) + 1]
    /\ last' = Last("store", c, <<>>, 0)
    /\ UNCHANGED <<strs, lists, ttls, key, drawn, resets>>
    /\ UNCHANGED webVars

\* call_history.wrapper up to the call of the wrapped method: RPUSH of
\* str(args) to the inputs list
StoreCall(c, data) ==
    /\ pc[c] = "idle"
    /\ drawn + Cardinality(NotDrawn) < MaxCalls
    /\ lists' = RedisRPush(InputsKey, StrArgs(data))
    /\ pc' = [pc EXCEPT ![c] = "cc_incr"]
    /\ arg' = [arg EXCEPT ![c] = data]
    /\ result' = [result EXCEPT ![c] = Pending]
    /\ out' = <<>>
    /\ log' = Append(log, [data |-> data, key |-> <<>>, status |-> "running"])
    /\ mine' = [mine EXCEPT ![c] = Len(log) + 1]
    /\ last' = Last("store", c, <<>>, 0)
    /\ UNCHANGED <<strs, ttls, key, drawn, resets>>
    /\ UNCHANGED webVars

\* count_calls issuing its INCR twice
CountCallsTwice(c) ==
    /\ pc[c] = "cc_incr"
    /\ strs' = (QualName :> IntStr(PyIntOf(PyBytes(RedisIncr(QualName)[QualName])).n + 1))
                   @@ strs
    /\ pc' = [pc EXCEPT ![c] = "st_set"]
    /\ last' = Last("store", c, <<>>, 0)
    /\ UNCHANGED <<lists, ttls, result, out, resets>>
    /\ UNCHANGED <<arg, key, drawn, log, mine>>
    /\ UNCHANGED <<url, fetched, accesses, nfetch, expect, written>>

\* count_calls keyed by method.__name__, a key nothing reads
CountCallsWrongKey(c) ==
    /\ pc[c] = "cc_incr"
    /\ strs' = RedisIncr(<<"store">>)
    /\ pc' = [pc EXCEPT ![c] = "st_set"]
    /\ last' = Last("store", c, <<>>, 0)
    /\ UNCHANGED <<lists, ttls, result, out, resets>>
    /\ UNCHANGED cacheVars
    /\ UNCHANGED webVars

\* count_calls.wrapper: INCR of the counter, then the call of store
CountCalls(c) ==
    /\ pc[c] = "cc_incr"
    /\ strs' = RedisIncr(QualName)
    /\ pc' = [pc EXCEPT ![c] = "st_set"]
    /\ last' = Last("store", c, <<>>, 0)
    /\ UNCHANGED <<lists, ttls, result, out, resets>>
    /\ UNCHANGED cacheVars
    /\ UNCHANGED webVars

\* Cache.store: a new key, then SET key data.  The client raises DataError
\* for a value that is no bytes, str, int or float; nothing catches what
\* set raises, so it leaves count_calls.wrapper and call_history.wrapper too.
StoreSet(c) ==
    /\ pc[c] = "st_set"
    /\ drawn' = drawn + 1
    /\ last' = Last("store", c, <<>>, 0)
    /\ IF Storable(arg[c])
       THEN /\ strs' = (KeyStr(drawn + 1) :> Encode(arg[c])) @@ strs
            /\ ttls' = Without(ttls, KeyStr(drawn + 1))
            /\ lists' = Without(lists, KeyStr(drawn + 1))
            /\ key' = [key EXCEPT ![c] = KeyStr(drawn + 1)]
            /\ pc' = [pc EXCEPT ![c] = "ch_out"]
            /\ UNCHANGED <<arg, result, log, mine>>
       ELSE /\ pc' = [pc EXCEPT ![c] = "idle"]
            /\ result' = [result EXCEPT ![c] = Raised("DataError")]
            /\ log' = Ended(c, "failed", <<>>)
            /\ mine' = [mine EXCEPT ![c] = 0]
            /\ arg' = [arg EXCEPT ![c] = PyNone]
            /\ UNCHANGED <<strs, ttls, lists, key>>
    /\ UNCHANGED <<out, resets>>
    /\ UNCHANGED webVars

\* call_history.wrapper pushing the output to input_key
PushOutputWrongKey(c) ==
    /\ pc[c] = "ch_out"
    /\ lists' = RedisRPush(InputsKey, key[c])
    /\ pc' = [pc EXCEPT ![c] = "idle"]
    /\ result' = [result EXCEPT ![c] = PyStr(key[c])]
    /\ log' = Ended(c, "returned", key[c])
    /\ mine' = [mine EXCEPT ![c] = 0]
    /\ arg' = [arg EXCEPT ![c] = PyNone]
    /\ key' = [key EXCEPT ![c] = <<>>]
    /\ last' = Last("store", c, <<>>, 0)
    /\ UNCHANGED <<strs, ttls, out, drawn, resets>>
    /\ UNCHANGED webVars

\* call_history.wrapper after the wrapped method returned: RPUSH of the
\* key to the outputs list, and the key is returned
PushOutput(c) ==
    /\ pc[c] = "ch_out"
    /\ lists' = RedisRPush(OutputsKey, key[c])
    /\ pc' = [pc EXCEPT ![c] = "idle"]
    /\ result' = [result EXCEPT ![c] = PyStr(key[c])]
    /\ log' = Ended(c, "returned", key[c])
    /\ mine' = [mine EXCEPT ![c] = 0]
    /\ arg' = [arg EXCEPT ![c] = PyNone]
    /\ key' = [key EXCEPT ![c] = <<>>]
    /\ last' = Last("store", c, <<>>, 0)
    /\ UNCHANGED <<strs, ttls, out, drawn, resets>>
    /\ UNCHANGED webVars

\* fn(data) for the two conversions the class passes to get
ApplyFn(fn, v) == IF fn = "int" THEN PyIntOf(v) ELSE PyDecode(v)

\* Cache.get on a client made with decode_responses=True
CacheGetDecoded(k, fn) ==
    LET data == RedisGet(k)
    IN  IF data = <<>> THEN PyNone
        ELSE IF fn # "none" THEN ApplyFn(fn, PyBytes(data[1]))
        ELSE PyDecode(PyBytes(data[1]))

\* Cache.get applying fn before it looks whether the key was there
CacheGetEager(k, fn) ==
    LET data == RedisGet(k)
    IN  IF fn # "none"
        THEN (IF data = <<>> THEN Raised("TypeError") ELSE ApplyFn(fn, PyBytes(data[1])))
        ELSE IF data = <<>> THEN PyNone
        ELSE PyBytes(data[1])

\* Cache.get(key, fn): the client of exercise.py returns bytes
CacheGet(k, fn) ==
    LET data == RedisGet(k)
    IN  IF data = <<>> THEN PyNone
        ELSE IF fn # "none" THEN ApplyFn(fn, PyBytes(data[1]))
        ELSE PyBytes(data[1])

\* the keys the callers ask for: every key store can return
AskedKeys == {KeyStr(i) : i \in 1..MaxCalls}

\* an operation of one Redis read that changes nothing in the database
Reads(c, name, k, r, printed) ==
    /\ pc[c] = "idle"
    /\ result' = [result EXCEPT ![c] = r]
    /\ out' = printed
    /\ last' = Last(name, c, k, 0)
    /\ UNCHANGED <<strs, lists, ttls, pc, resets>>
    /\ UNCHANGED cacheVars
    /\ UNCHANGED webVars

Get(c, k) == Reads(c, "get", k, CacheGet(k, "none"), <<>>)

GetStr(c, k) == Reads(c, "get_str", k, CacheGet(k, "str"), <<>>)

\* get_int without fn=int
GetIntNoFn(c, k) == Reads(c, "get_int", k, CacheGet(k, "none"), <<>>)

GetInt(c, k) == Reads(c, "get_int", k, CacheGet(k, "int"), <<>>)

Min(a, b) == IF a < b THEN a ELSE b

\* zip(inputs, outputs) of replay, each entry decoded
ReplayLines(ins, outs) ==
    [i \in 1..Min(Len(ins), Len(outs)) |-> [in |-> ins[i], out |-> outs[i]]]

\* the count taken from the length of the outputs list
ReplayCountFromOutputs == Len(RedisLRange(OutputsKey))

\* the count replay prints: 0 for no counter, else int(count)
ReplayCount ==
    IF RedisGet(QualName) = <<>> THEN 0
    ELSE PyIntOf(PyBytes(RedisGet(QualName)[1])).n

\* replay(cache.store): the summary line, then one line per zipped pair
Replay(c) ==
    Reads(c, "replay", <<>>, PyNone,
          <<[count |-> ReplayCount,
             lines |-> ReplayLines(RedisLRange(InputsKey), RedisLRange(OutputsKey))]>>)

\* Cache.__init__ without its flushdb
NewCacheNoFlush(c) ==
    /\ pc[c] = "idle"
    /\ resets < MaxResets
    /\ resets' = resets + 1
    /\ log' = <<>>
    /\ mine' = [d \in Callers |-> 0]
    /\ accesses' = [u \in URLs |-> 0]
    /\ written' = Empty
    /\ result' = [result EXCEPT ![c] = PyNone]
    /\ out' = <<>>
    /\ last' = Last("Cache", c, <<>>, 0)
    /\ UNCHANGED <<strs, lists, ttls, pc, arg, key, drawn, url, fetched, nfetch,
                   expect>>

\* Cache.__init__: FLUSHDB empties the whole database
NewCache(c) ==
    /\ pc[c] = "idle"
    /\ resets < MaxResets
    /\ resets' = resets + 1
    /\ strs' = Empty
    /\ lists' = Empty
    /\ ttls' = Empty
    /\ log' = <<>>
    /\ mine' = [d \in Callers |-> 0]
    /\ accesses' = [u \in URLs |-> 0]
    /\ written' = Empty
    /\ result' = [result EXCEPT ![c] = PyNone]
    /\ out' = <<>>
    /\ last' = Last("Cache", c, <<>>, 0)
    /\ UNCHANGED <<pc, arg, key, drawn, url, fetched, nfetch, expect>>

Next ==
    \E c \in SeqCallers :
        \/ \E data \in StoreArgs : StoreCall(c, data)
        \/ CountCalls(c)
        \/ StoreSet(c)
        \/ PushOutput(c)
        \/ \E k \in AskedKeys : Get(c, k)
        \/ \E k \in AskedKeys : GetStr(c, k)
        \/ \E k \in AskedKeys : GetInt(c, k)
        \/ Replay(c)
        \/ NewCache(c)

Spec == Init /\ [][Next]_vars

\* several callers in the traced store at once, on one database that is
\* not flushed meanwhile: the steps of their calls interleave
NextConc ==
    \E c \in Callers :
        \/ \E data \in StoreArgs : StoreCall(c, data)
        \/ CountCalls(c)
        \/ StoreSet(c)
        \/ PushOutput(c)

SpecConc == Init /\ [][NextConc]_vars

(***************************************************************************)
(* web.py.  Its client is made with decode_responses=True: GET returns a   *)
(* str.  Time passes in seconds; a key with a time to live is deleted by   *)
(* Redis when its seconds are over.                                        *)
(***************************************************************************)
\* the expiration get_page gives to a cached page, in seconds
TTL == 10

\* bool(v) of a reply: None and the empty str are false
Truthy(v) == v.t # "none" /\ ~(v.t = "str" /\ v.s = <<>>)

\* redis_client.get(k) of web.py
GetDecoded(k) == IF RedisGet(k) = <<>> THEN PyNone ELSE PyStr(RedisGet(k)[1])

Started == accesses["u1"] + accesses["u2"]

\* the body a miss cached for u less than TTL seconds ago, if any, with no
\* clear_cache(u) or flushdb since
InWindow(u) ==
    IF u \in DOMAIN written /\ written[u].age < TTL
    THEN <<written[u].body>> ELSE <<>>

\* the wrapper with the INCR of count:url left out of the entry of the call
GetPageCallNoIncr(c, u) ==
    /\ pc[c] = "idle"
    /\ Started < MaxAccess
    /\ pc' = [pc EXCEPT ![c] = "wp_get"]
    /\ url' = [url EXCEPT ![c] = u]
    /\ fetched' = [fetched EXCEPT ![c] = <<>>]
    /\ nfetch' = [nfetch EXCEPT ![c] = 0]
    /\ expect' = [expect EXCEPT ![c] = <<>>]
    /\ accesses' = [accesses EXCEPT ![u] = @ + 1]
    /\ result' = [result EXCEPT ![c] = Pending]
    /\ out' = <<>>
    /\ last' = Last("get_page", c, <<u>>, 0)
    /\ UNCHANGED <<strs, lists, ttls, written, resets>>
    /\ UNCHANGED cacheVars

\* url_access_count.wrapper: INCR count:url
GetPageCall(c, u) ==
    /\ pc[c] = "idle"
    /\ Started < MaxAccess
    /\ strs' = RedisIncr(CountKey(u))
    /\ pc' = [pc EXCEPT ![c] = "wp_get"]
    /\ url' = [url EXCEPT ![c] = u]
    /\ fetched' = [fetched EXCEPT ![c] = <<>>]
    /\ nfetch' = [nfetch EXCEPT ![c] = 0]
    /\ expect' = [expect EXCEPT ![c] = <<>>]
    /\ accesses' = [accesses EXCEPT ![u] = @ + 1]
    /\ result' = [result EXCEPT ![c] = Pending]
    /\ out' = <<>>
    /\ last' = Last("get_page", c, <<u>>, 0)
    /\ UNCHANGED <<lists, ttls, written, resets>>
    /\ UNCHANGED cacheVars

\* the wrapper going on to the HTTP GET whatever the lookup found
GetPageLookupNoCache(c) ==
    /\ pc[c] = "wp_get"
    /\ expect' = [expect EXCEPT ![c] = InWindow(url[c])]
    /\ pc' = [pc EXCEPT ![c] = "wp_fetch"]
    /\ last' = Last("get_page", c, <<url[c]>>, 0)
    /\ UNCHANGED <<strs, lists, ttls, url, fetched, accesses, nfetch, written,
                   result, out, resets>>
    /\ UNCHANGED cacheVars

\* cached_result = GET cache:url; if cached_result: return cached_result
GetPageLookup(c) ==
    /\ pc[c] = "wp_get"
    /\ expect' = [expect EXCEPT ![c] = InWindow(url[c])]
    /\ IF Truthy(GetDecoded(CacheKey(url[c])))
       THEN /\ result' = [result EXCEPT ![c] = GetDecoded(CacheKey(url[c]))]
            /\ pc' = [pc EXCEPT ![c] = "idle"]
       ELSE /\ pc' = [pc EXCEPT ![c] = "wp_fetch"]
            /\ UNCHANGED result
    /\ last' = Last("get_page", c, <<url[c]>>, 0)
    /\ UNCHANGED <<strs, lists, ttls, url, fetched, accesses, nfetch, written,
                   out, resets>>
    /\ UNCHANGED cacheVars

\* get_page: requests.get(url) answers, and response.text is the body
HttpGet(c, body) ==
    /\ pc[c] = "wp_fetch"
    /\ nfetch' = [nfetch EXCEPT ![c] = @ + 1]
    /\ fetched' = [fetched EXCEPT ![c] = body]
    /\ pc' = [pc EXCEPT ![c] = "wp_setex"]
    /\ last' = Last("get_page", c, <<url[c]>>, 0)
    /\ UNCHANGED <<strs, lists, ttls, url, accesses, expect, written, result,
                   out, resets>>
    /\ UNCHANGED cacheVars

\* a wrapper that tries the HTTP GET a second time when the first raises
HttpFailRetry(c) ==
    /\ pc[c] = "wp_fetch"
    /\ nfetch' = [nfetch EXCEPT ![c] = @ + 1]
    /\ IF nfetch[c] = 0
       THEN UNCHANGED <<result, pc>>
       ELSE /\ result' = [result EXCEPT ![c] = Raised("RequestException")]
            /\ pc' = [pc EXCEPT ![c] = "idle"]
    /\ last' = Last("get_page", c, <<url[c]>>, 0)
    /\ UNCHANGED <<strs, lists, ttls, url, fetched, accesses, expect, written,
                   out, resets>>
    /\ UNCHANGED cacheVars

\* get_page: requests.get(url) raises; nothing catches it
HttpFail(c) ==
    /\ pc[c] = "wp_fetch"
    /\ nfetch' = [nfetch EXCEPT ![c] = @ + 1]
    /\ result' = [result EXCEPT ![c] = Raised("RequestException")]
    /\ pc' = [pc EXCEPT ![c] = "idle"]
    /\ last' = Last("get_page", c, <<url[c]>>, 0)
    /\ UNCHANGED <<strs, lists, ttls, url, fetched, accesses, expect, written,
                   out, resets>>
    /\ UNCHANGED cacheVars

\* url_access_count.wrapper: SETEX cache:url 10 result; return result
GetPageStore(c) ==
    /\ pc[c] = "wp_setex"
    /\ strs' = (CacheKey(url[c]) :> fetched[c]) @@ strs
    /\ ttls' = (CacheKey(url[c]) :> TTL) @@ ttls
    /\ lists' = Without(lists, CacheKey(url[c]))
    /\ written' = (url[c] :> [body |-> fetched[c], age |-> 0]) @@ written
    /\ result' = [result EXCEPT ![c] = PyStr(fetched[c])]
    /\ fetched' = [fetched EXCEPT ![c] = <<>>]
    /\ pc' = [pc EXCEPT ![c] = "idle"]
    /\ last' = Last("get_page", c, <<url[c]>>, 0)
    /\ UNCHANGED <<url, accesses, nfetch, expect, out, resets>>
    /\ UNCHANGED cacheVars

\* get_url_access_count(url): int(count) if count else 0
AccessCount(u) ==
    IF Truthy(GetDecoded(CountKey(u))) THEN PyIntOf(GetDecoded(CountKey(u))).n
    ELSE 0

GetUrlAccessCount(c, u) ==
    /\ pc[c] = "idle"
    /\ result' = [result EXCEPT ![c] = PyInt(AccessCount(u))]
    /\ out' = <<>>
    /\ last' = Last("get_access_count", c, <<u>>, 0)
    /\ UNCHANGED <<strs, lists, ttls, pc, resets>>
    /\ UNCHANGED cacheVars
    /\ UNCHANGED webVars

\* the keys DEL k deletes: 1 or 0
Deleted(k) == IF k \in DOMAIN strs \cup DOMAIN lists THEN 1 ELSE 0

\* clear_url_cache deleting count:url with cache:url
ClearUrlCacheAndCount(c, u) ==
    /\ pc[c] = "idle"
    /\ strs' = Without(Without(strs, CacheKey(u)), CountKey(u))
    /\ lists' = Without(lists, CacheKey(u))
    /\ ttls' = Without(ttls, CacheKey(u))
    /\ written' = Without(written, u)
    /\ result' = [result EXCEPT ![c] = PyNone]
    /\ out' = <<>>
    /\ last' = Last("clear_cache", c, <<u>>, Deleted(CacheKey(u)))
    /\ UNCHANGED <<pc, url, fetched, accesses, nfetch, expect, resets>>
    /\ UNCHANGED cacheVars

\* clear_url_cache(url): DEL cache:url
ClearUrlCache(c, u) ==
    /\ pc[c] = "idle"
    /\ strs' = Without(strs, CacheKey(u))
    /\ lists' = Without(lists, CacheKey(u))
    /\ ttls' = Without(ttls, CacheKey(u))
    /\ written' = Without(written, u)
    /\ result' = [result EXCEPT ![c] = PyNone]
    /\ out' = <<>>
    /\ last' = Last("clear_cache", c, <<u>>, Deleted(CacheKey(u)))
    /\ UNCHANGED <<pc, url, fetched, accesses, nfetch, expect, resets>>
    /\ UNCHANGED cacheVars

\* clear_all_cache deleting the cached bodies only
ClearAllCacheBodiesOnly(c) ==
    /\ pc[c] = "idle"
    /\ resets < MaxResets
    /\ resets' = resets + 1
    /\ strs' = [k \in DOMAIN strs \ {CacheKey(u) : u \in URLs} |-> strs[k]]
    /\ lists' = Empty
    /\ ttls' = Empty
    /\ log' = <<>>
    /\ mine' = [d \in Callers |-> 0]
    /\ accesses' = [u \in URLs |-> 0]
    /\ written' = Empty
    /\ result' = [result EXCEPT ![c] = PyNone]
    /\ out' = <<>>
    /\ last' = Last("clear_all", c, <<>>, 0)
    /\ UNCHANGED <<pc, arg, key, drawn, url, fetched, nfetch, expect>>

\* clear_all_cache(): FLUSHDB
ClearAllCache(c) ==
    /\ pc[c] = "idle"
    /\ resets < MaxResets
    /\ resets' = resets + 1
    /\ strs' = Empty
    /\ lists' = Empty
    /\ ttls' = Empty
    /\ log' = <<>>
    /\ mine' = [d \in Callers |-> 0]
    /\ accesses' = [u \in URLs |-> 0]
    /\ written' = Empty
    /\ result' = [result EXCEPT ![c] = PyNone]
    /\ out' = <<>>
    /\ last' = Last("clear_all", c, <<>>, 0)
    /\ UNCHANGED <<pc, arg, key, drawn, url, fetched, nfetch, expect>>

\* the keys whose time to live ends with this second
Expiring == {k \in DOMAIN ttls : ttls[k] = 1}

\* one second passes
Tick ==
    /\ ttls' = [k \in DOMAIN ttls \ Expiring |-> ttls[k] - 1]
    /\ strs' = [k \in DOMAIN strs \ Expiring |-> strs[k]]
    /\ lists' = [k \in DOMAIN lists \ Expiring |-> lists[k]]
    /\ written' = [u \in DOMAIN written |->
                      [written[u] EXCEPT !.age = Min(TTL, @ + 1)]]
    /\ last' = Last("tick", "c1", <<>>, 0)
    /\ UNCHANGED <<pc, url, fetched, accesses, nfetch, expect, result, out, resets>>
    /\ UNCHANGED cacheVars

NextWeb ==
    \/ \E c \in SeqCallers :
        \/ \E u \in URLs : GetPageCall(c, u)
        \/ GetPageLookup(c)
        \/ \E body \in Bodies : HttpGet(c, body)
        \/ HttpFail(c)
        \/ GetPageStore(c)
        \/ \E u \in URLs : GetUrlAccessCount(c, u)
        \/ \E u \in URLs : ClearUrlCache(c, u)
        \/ ClearAllCache(c)
    \/ Tick

SpecWeb == Init /\ [][NextWeb]_vars

\* several callers in get_page (or get_page_no_decorator, which issues the
\* same commands in the same order) at once
NextWebConc ==
    \/ \E c \in Callers :
        \/ \E u \in URLs : GetPageCall(c, u)
        \/ GetPageLookup(c)
        \/ \E body \in Bodies : HttpGet(c, body)
        \/ HttpFail(c)
        \/ GetPageStore(c)
    \/ Tick

SpecWebConc == Init /\ [][NextWebConc]_vars

\* exercise.py and web.py on the one database both connect to (each calls
\* redis.Redis() with the default host, port and db): one caller using the
\* operations of both modules in any order, MaxOps calls of store and of
\* get_page in all
CallsLeft == drawn + Cardinality(NotDrawn) + Started < MaxOps

NextAll ==
    \/ \E c \in SeqCallers :
        \/ \E data \in StoreArgs : CallsLeft /\ StoreCall(c, data)
        \/ CountCalls(c)
        \/ StoreSet(c)
        \/ PushOutput(c)
        \/ \E k \in AskedKeys : Get(c, k)
        \/ \E k \in AskedKeys : GetStr(c, k)
        \/ \E k \in AskedKeys : GetInt(c, k)
        \/ Replay(c)
        \/ NewCache(c)
        \/ \E u \in URLs : CallsLeft /\ GetPageCall(c, u)
        \/ GetPageLookup(c)
        \/ \E body \in Bodies : HttpGet(c, body)
        \/ HttpFail(c)
        \/ GetPageStore(c)
        \/ \E u \in URLs : ClearUrlCache(c, u)
        \/ ClearAllCache(c)
    \/ Tick

SpecAll == Init /\ [][NextAll]_vars

(***************************************************************************)
(* The page cache and the access counters (web.py).                        *)
(***************************************************************************)
\* caller c has ended a call of get_page and nothing happened since
EndedGetPage(c) == last.name = "get_page" /\ last.c = c /\ pc[c] = "idle"

\* C3 as stated: for every URL and every body the HTTP GET can return, the
\* first get_page(u) on a fresh URL performs exactly one HTTP GET, and a
\* second get_page(u) before the 10 seconds are over returns the identical
\* content and performs no HTTP GET.
C3_SecondCallWithinWindowIsAHit ==
    \A c \in Callers :
        /\ (nfetch[c] > 0 => expect[c] = <<>>)
        /\ (EndedGetPage(c) /\ expect[c] # <<>> =>
                result[c] = PyStr(expect[c][1]) /\ nfetch[c] = 0)
        /\ (EndedGetPage(c) /\ expect[c] = <<>> => nfetch[c] = 1)

\* C4: since the last global reset, get_access_count(u) is the number of
\* get_page(u) calls started, whether a hit, a miss or a failed fetch, and
\* 0 for a URL never accessed.
C4_CountIsCallsStarted ==
    \A u \in URLs : AccessCount(u) = accesses[u]

\* a failed fetch as the third access of u1, after a miss whose page
\* expired; u2 never accessed
C4_Witness ==
    /\ EndedGetPage("c1")
    /\ url["c1"] = "u1"
    /\ result["c1"] = Raised("RequestException")
    /\ "u1" \in DOMAIN written
    /\ accesses["u1"] = 3
    /\ AccessCount("u1") = 3
    /\ AccessCount("u2") = 0
    /\ CountKey("u2") \notin DOMAIN strs

\* the cached body of u and its seconds left, <<>> for none
CachedPage(u) ==
    IF CacheKey(u) \in DOMAIN strs
    THEN <<strs[CacheKey(u)],
           IF CacheKey(u) \in DOMAIN ttls THEN ttls[CacheKey(u)] ELSE 0>>
    ELSE <<>>

\* C5: clear_cache(u) removes the cached body of u only: the counter of u
\* and the cached bodies and counters of the other URLs stay as they were.
C5_ClearCacheOnlyRemovesBodyOfUrl ==
    [][ \A u \in URLs :
            (last'.name = "clear_cache" /\ last'.k = <<u>>) =>
                /\ CachedPage(u)' = <<>>
                /\ \A v \in URLs :
                       /\ RedisGet(CountKey(v))' = RedisGet(CountKey(v))
                       /\ (v # u => CachedPage(v)' = CachedPage(v)) ]_vars

\* clear_cache(u1) deleted a body; u1 keeps its count, u2 its body
C5_Witness ==
    /\ last.name = "clear_cache"
    /\ last.k = <<"u1">>
    /\ last.n = 1
    /\ CachedPage("u1") = <<>>
    /\ AccessCount("u1") = 2
    /\ CachedPage("u2") # <<>>
    /\ AccessCount("u2") = 1

\* C6: after clear_all() no URL has a cached body and every access count is
\* 0, so the next get_page of any URL performs an HTTP GET and leaves the
\* access count of the URL at 1.
C6_ClearAllEmptiesEverything ==
    /\ last.name = "clear_all" =>
           \A u \in URLs : CachedPage(u) = <<>> /\ AccessCount(u) = 0
    /\ \A c \in Callers :
           (resets > 0 /\ EndedGetPage(c) /\ accesses[url[c]] = 1) =>
               nfetch[c] = 1 /\ AccessCount(url[c]) = 1

\* the first get_page of u1 after a clear_all fetched a page
C6_Witness ==
    /\ resets = 1
    /\ EndedGetPage("c1")
    /\ url["c1"] = "u1"
    /\ accesses["u1"] = 1
    /\ nfetch["c1"] = 1
    /\ result["c1"] = PyStr(<<"a">>)
    /\ AccessCount("u1") = 1

\* C11: a get_page(u) whose HTTP GET fails raises the error to the caller
\* after exactly one attempt (no retry), writes no cache entry and returns
\* no stale body.
C11_FailedFetchRaisesOnce ==
    [][ \A c \in Callers :
            (pc[c] = "wp_fetch" /\ nfetch'[c] > nfetch[c] /\ pc'[c] # "wp_setex") =>
                /\ nfetch[c] = 0
                /\ nfetch'[c] = 1
                /\ pc'[c] = "idle"
                /\ result'[c] = Raised("RequestException")
                /\ \A u \in URLs : CachedPage(u)' = CachedPage(u)
                /\ CachedPage(url[c])' = <<>> \/ CachedPage(url[c])'[1] = <<>> ]_vars

\* get_page(u1) raised after one attempt; the page a miss cached before has
\* expired and nothing is cached for u1
C11_Witness ==
    /\ EndedGetPage("c1")
    /\ url["c1"] = "u1"
    /\ result["c1"] = Raised("RequestException")
    /\ nfetch["c1"] = 1
    /\ "u1" \in DOMAIN written
    /\ written["u1"].body = <<"a">>
    /\ written["u1"].age = TTL
    /\ CachedPage("u1") = <<>>

\* the body a miss cached for u is kept for TTL seconds from the miss,
\* whatever was read meanwhile, and is gone after them
FixedExpiration ==
    \A u \in DOMAIN written :
        IF written[u].age < TTL
        THEN CachedPage(u) = <<written[u].body, TTL - written[u].age>>
        ELSE CachedPage(u) = <<>>

\* C13 as stated: the body a get_page(u) miss cached at time t has a fixed
\* expiration of 10 seconds that hits do not extend: every get_page(u)
\* before t+10 is served from the cache, and the first get_page(u) at or
\* after t+10 performs a new HTTP GET and caches the body again with a
\* fresh expiration of 10 seconds.
C13_ServedFromCacheForTenSeconds ==
    [][ /\ FixedExpiration'
        /\ \A c \in Callers :
               /\ (pc[c] = "wp_get" /\ pc'[c] # "wp_get" /\ InWindow(url[c]) # <<>>) =>
                      /\ pc'[c] = "idle"
                      /\ result'[c] = PyStr(InWindow(url[c])[1])
                      /\ nfetch'[c] = 0
               /\ (pc[c] = "wp_get" /\ pc'[c] # "wp_get" /\ InWindow(url[c]) = <<>>) =>
                      pc'[c] = "wp_fetch"
               /\ (pc[c] = "wp_setex" /\ pc'[c] = "idle") =>
                      /\ nfetch'[c] = 1
                      /\ CachedPage(url[c])' = <<fetched[c], TTL>>
                      /\ written'[url[c]].age = 0 ]_vars

\* C17 as stated: under any interleaving of get_page(u) calls on one URL,
\* no call performs an HTTP GET while a cached body of u that has not
\* expired exists, so at most one HTTP GET for u within one window.
C17_NoFetchWhileCached ==
    [][ \A c \in Callers :
            nfetch'[c] > nfetch[c] => CachedPage(url[c]) = <<>> ]_vars

\* C17 amended: under any interleaving, a get_page(u) call performs an HTTP
\* GET, and only one, only when its own lookup of the cache found no body
\* of u or an empty one; calls that looked before a body was cached each
\* perform their HTTP GET, also while the body another call cached has not
\* expired.
C17_FetchOnlyAfterOwnMiss ==
    \A c \in Callers :
        (pc[c] \in {"wp_fetch", "wp_setex"} \/ nfetch[c] > 0) =>
            /\ nfetch[c] <= 1
            /\ expect[c] = <<>> \/ expect[c] = << <<>> >>

\* c2 has performed its HTTP GET for u1 after c1 cached a page for u1 that
\* has not expired; c2 had looked before
C17_Witness ==
    /\ url["c1"] = "u1" /\ url["c2"] = "u1"
    /\ EndedGetPage("c1")
    /\ result["c1"] = PyStr(<<"a">>)
    /\ pc["c2"] = "wp_fetch"
    /\ expect["c2"] = <<>>
    /\ CachedPage("u1") = <<<<"a">>, TTL>>
    /\ ENABLED HttpGet("c2", <<"a">>)

\* C15: a value stored by store under key k is not changed and not removed
\* by any step of a later store, get, get_str, get_int, replay, get_page
\* or clear_cache, nor by the passing of time: get(k) returns after the step
\* what it returned before it.  Only a flush of the database (a new Cache,
\* clear_all_cache) ends it.
C15_StoredValueIsKept ==
    [][ last'.name \notin {"Cache", "clear_all"} =>
            \A k \in AskedKeys :
                k \in DOMAIN strs =>
                    /\ k \in DOMAIN strs'
                    /\ strs'[k] = strs[k]
                    /\ k \notin DOMAIN ttls'
                    /\ CacheGet(k, "none")' = CacheGet(k, "none") ]_vars

\* a value is stored, a page was cached after it and clear_cache has just
\* deleted the page
C15_Witness ==
    /\ last.name = "clear_cache"
    /\ last.n = 1
    /\ CacheGet(KeyStr(1), "none") = PyBytes(<<"4", "2">>)
    /\ CountKey("u1") \in DOMAIN strs

(***************************************************************************)
(* The call history of the traced store (exercise.py).                     *)
(***************************************************************************)
Idle == \A c \in Callers : pc[c] = "idle"

Inputs == RedisLRange(InputsKey)
Outputs == RedisLRange(OutputsKey)

\* the calls of store since the last flushdb that returned a key
ReturnedCalls == SelectSeq(log, LAMBDA e : e.status = "returned")
FailedCalls == SelectSeq(log, LAMBDA e : e.status = "failed")

\* a call of store has just returned
AfterCompletedCall ==
    Idle /\ log # <<>> /\ log[Len(log)].status = "returned"

\* C1 as stated: after every completed call of store (one caller, no flush)
\* the counter, len(inputs) and len(outputs) all equal the number N of calls
\* completed so far.
C1_AllEqualCompleted ==
    AfterCompletedCall =>
        /\ ReplayCount = Len(ReturnedCalls)
        /\ Len(Inputs) = Len(ReturnedCalls)
        /\ Len(Outputs) = Len(ReturnedCalls)

\* C1 amended: whenever no call of store is running (one caller, no flush
\* since), the counter and len(inputs) equal the number of calls started,
\* returned or failed, and len(outputs) equals the number of calls that
\* returned; so the three equal N when no call has failed.
C1_CountsByOutcome ==
    Idle =>
        /\ ReplayCount = Len(log)
        /\ Len(Inputs) = Len(log)
        /\ Len(Outputs) = Len(ReturnedCalls)
        /\ Len(log) = Len(ReturnedCalls) + Len(FailedCalls)
        /\ (FailedCalls = <<>> =>
                /\ ReplayCount = Len(ReturnedCalls)
                /\ Len(Inputs) = Len(ReturnedCalls)
                /\ Len(Outputs) = Len(ReturnedCalls))

\* a failed call between two calls that returned
C1_Witness ==
    /\ AfterCompletedCall
    /\ Len(log) = 3
    /\ log[1].status = "returned"
    /\ log[2].status = "failed"
    /\ Len(Outputs) = 2
    /\ ReplayCount = 3

\* C2 as stated: with no two calls overlapping, the i-th inputs entry is the
\* argument snapshot of the i-th call and the i-th outputs entry is the key
\* that same i-th call returned.
C2_SameCallAtEachIndex ==
    /\ \A i \in 1..Len(Inputs) :
           i <= Len(log) /\ Inputs[i] = StrArgs(log[i].data)
    /\ \A i \in 1..Len(Outputs) :
           /\ i <= Len(log)
           /\ log[i].status = "returned"
           /\ Outputs[i] = log[i].key

\* C2 amended: with no two calls overlapping, the i-th inputs entry is the
\* argument snapshot of the i-th call started and the j-th outputs entry is
\* the key of the j-th call that returned; the two are of the same call at
\* every index up to which no call has failed.
C2_IndexByOutcome ==
    /\ \A i \in 1..Len(Inputs) :
           i <= Len(log) /\ Inputs[i] = StrArgs(log[i].data)
    /\ \A j \in 1..Len(Outputs) :
           /\ j <= Len(ReturnedCalls)
           /\ Outputs[j] = ReturnedCalls[j].key
           /\ ((\A m \in 1..j : log[m].status # "failed") =>
                   log[j].status = "returned" /\ Outputs[j] = log[j].key)

\* two calls with different arguments returned and a third one failed
C2_Witness ==
    /\ Idle
    /\ Len(log) = 3
    /\ log[1].status = "returned"
    /\ log[2].status = "returned"
    /\ log[3].status = "failed"
    /\ log[1].data # log[2].data
    /\ Len(Outputs) = 2
    /\ Outputs[2] = log[2].key

(***************************************************************************)
(* store, get, get_str, get_int and replay (exercise.py).                  *)
(***************************************************************************)
\* the latest step was the read `name` of a key that call i of log
\* returned, with no flushdb since that call
ReadOfCall(name, i) ==
    /\ last.name = name
    /\ i \in 1..Len(log)
    /\ log[i].status = "returned"
    /\ log[i].key = last.k

\* C7 as stated: for every storable value v, get(store(v)) with no
\* conversion function returns v unchanged (no flush or expiration between).
C7_GetReturnsStoredValue ==
    \A i \in 1..Len(log) :
        ReadOfCall("get", i) => result[last.c] = log[i].data

\* C7 amended: get(store(v)) with no conversion function returns the bytes
\* the client stored for v: v itself when v is binary, and else the byte
\* string of v (the UTF-8 bytes of a text, the decimal digits of an integer,
\* the repr of a float), which is not equal to v.
C7_GetReturnsBytesOfValue ==
    \A i \in 1..Len(log) :
        ReadOfCall("get", i) =>
            /\ result[last.c] = PyBytes(Encode(log[i].data))
            /\ (result[last.c] = log[i].data <=> log[i].data.t = "bytes")

\* get of the key of store(42) returned b"42"
C7_Witness ==
    \E i \in 1..Len(log) :
        /\ ReadOfCall("get", i)
        /\ log[i].data = PyInt(42)
        /\ result[last.c] = PyBytes(<<"4", "2">>)

\* a stored value no character of which is a digit
NonNumeric(v) ==
    /\ v.t \in {"str", "bytes"}
    /\ \A j \in 1..Len(v.s) : v.s[j] \notin DigitSet

\* C8: get_int on the key of a stored integer n returns n; on the key of a
\* non-numeric stored value it raises ValueError to the caller; in both
\* cases the step leaves the database as it was.
C8_GetIntParsesOrRaises ==
    [][ \A i \in 1..Len(log') :
            ReadOfCall("get_int", i)' =>
                /\ (log'[i].data.t = "int" => result'[last'.c] = log'[i].data)
                /\ (NonNumeric(log'[i].data) =>
                        result'[last'.c] = Raised("ValueError"))
                /\ UNCHANGED <<strs, lists, ttls>> ]_vars

\* get_int raised ValueError on the key of store("no"), with the key of
\* store(-7) in the database as well
C8_Witness ==
    \E i, j \in 1..Len(log) :
        /\ ReadOfCall("get_int", i)
        /\ log[i].data = PyStr(<<"n", "o">>)
        /\ result[last.c] = Raised("ValueError")
        /\ log[j].status = "returned"
        /\ log[j].data = PyInt(-7)
        /\ CacheGet(log[j].key, "int") = PyInt(-7)

\* C9: get, get_str and get_int on a key that is not in the store return
\* None and raise nothing: the conversion is not applied.
C9_MissingKeyIsNone ==
    (last.name \in {"get", "get_str", "get_int"} /\ last.k \notin DOMAIN strs)
        => result[last.c] = PyNone

\* get_int of a key that store never returned, with other keys stored
C9_Witness ==
    /\ last.name = "get_int"
    /\ last.k \notin DOMAIN strs
    /\ \E k \in AskedKeys : k \in DOMAIN strs
    /\ result[last.c] = PyNone

\* the lines replay printed, and the count in its first line
Printed == out[1]

\* C10 as stated: replay prints the call count, then one line per call of
\* store made so far, in call order, each pairing the argument snapshot of
\* that call with the key that call returned; as many lines as the count.
C10_OneLinePerCall ==
    last.name = "replay" =>
        /\ Printed.count = Len(log)
        /\ Len(Printed.lines) = Printed.count
        /\ \A i \in 1..Len(Printed.lines) :
               /\ i <= Len(log)
               /\ log[i].status = "returned"
               /\ Printed.lines[i] =
                      [in |-> StrArgs(log[i].data), out |-> log[i].key]

\* C10 amended: replay prints the number of calls of store started since the
\* Cache was made, then one line per call that returned: line j pairs the
\* argument snapshot of the j-th call started with the key of the j-th call
\* that returned.  When no call has failed this is one line per call, each
\* pairing the snapshot and the key of the same call, and as many lines as
\* the count.
C10_LinesByOutcome ==
    last.name = "replay" =>
        /\ Printed.count = Len(log)
        /\ Len(Printed.lines) = Len(ReturnedCalls)
        /\ \A j \in 1..Len(Printed.lines) :
               Printed.lines[j] =
                   [in |-> StrArgs(log[j].data), out |-> ReturnedCalls[j].key]
        /\ (FailedCalls = <<>> =>
               /\ Len(Printed.lines) = Printed.count
               /\ \A i \in 1..Len(Printed.lines) :
                      Printed.lines[i] =
                          [in |-> StrArgs(log[i].data), out |-> log[i].key])

\* replay after store("no"), store(42): two lines, in that order
C10_Witness ==
    /\ last.name = "replay"
    /\ Len(log) = 2
    /\ log[1].data = PyStr(<<"n", "o">>)
    /\ log[2].data = PyInt(42)
    /\ Printed.count = 2
    /\ Len(Printed.lines) = 2
    /\ Printed.lines[1].in = <<"(", "'", "n", "o", "'", ",", ")">>
    /\ Printed.lines[2].in = <<"(", "4", "2", ",", ")">>
    /\ Printed.lines[1].out = log[1].key
    /\ Printed.lines[2].out = log[2].key

(***************************************************************************)
(* The order of the steps of a traced call (exercise.py).                  *)
(***************************************************************************)
\* the calls whose wrapped store has returned: the calls that returned and
\* the calls about to push their output
StoreSucceeded ==
    Len(ReturnedCalls) + Cardinality({c \in Callers : pc[c] = "ch_out"})

\* the calls that have not yet passed the INCR of count_calls
BeforeIncr == Cardinality({c \in Callers : pc[c] = "cc_incr"})

\* C12 as stated: the counter is incremented before the wrapped operation
\* runs; the inputs entry and then the outputs entry are appended only after
\* the wrapped operation has completed successfully; a call whose wrapped
\* operation fails appends to neither list.
C12_HistoryOnlyAfterSuccess ==
    /\ ReplayCount = Len(log) - BeforeIncr
    /\ Len(Inputs) <= StoreSucceeded
    /\ Len(Outputs) <= Len(Inputs)
    /\ (Idle => Len(Inputs) = Len(ReturnedCalls)
                /\ Len(Outputs) = Len(ReturnedCalls))

\* C12 amended: the inputs entry is appended first, before the counter is
\* incremented and before the wrapped operation runs; the counter is
\* incremented before the wrapped operation runs; the outputs entry is
\* appended only after the wrapped operation has completed successfully.  A
\* call whose wrapped operation fails has appended its inputs entry and
\* appends no outputs entry.
C12_InputFirstOutputAfterSuccess ==
    /\ Len(Inputs) = Len(log)
    /\ ReplayCount = Len(log) - BeforeIncr
    /\ Len(Outputs) = Len(ReturnedCalls)
    /\ \A c \in Callers :
           pc[c] \in {"cc_incr", "st_set", "ch_out"} =>
               /\ mine[c] = Len(Inputs)
               /\ Inputs[mine[c]] = StrArgs(arg[c])
               /\ Len(Outputs) < Len(Inputs)

\* the wrapped store of the second call is about to run: its inputs entry
\* and its count are there; the first call failed and left its inputs entry
C12_Witness ==
    /\ pc["c1"] = "st_set"
    /\ Len(log) = 2
    /\ log[1].status = "failed"
    /\ Len(Inputs) = 2
    /\ ReplayCount = 2
    /\ Len(Outputs) = 0

(***************************************************************************)
(* Callers in the traced store at once (exercise.py).                      *)
(***************************************************************************)
AllReturned == Idle /\ Len(ReturnedCalls) = Len(log)

\* C14: with two or more callers in the traced store at once, the inputs
\* list stays in the order in which the calls started and the outputs list
\* holds the keys of the calls that returned, each once, in the order in
\* which the calls pushed them; a state in which all calls have completed
\* and some index holds the input of one call and the output of another one
\* is reachable (C14_Witness).
C14_ListsOrderedApart ==
    /\ Len(Inputs) = Len(log)
    /\ \A i \in 1..Len(Inputs) : Inputs[i] = StrArgs(log[i].data)
    /\ Len(Outputs) = Len(ReturnedCalls)
    /\ \A i, j \in 1..Len(Outputs) : Outputs[i] = Outputs[j] => i = j
    /\ \A i \in 1..Len(Outputs) :
           \E j \in 1..Len(ReturnedCalls) : Outputs[i] = ReturnedCalls[j].key

\* all calls have returned, and index 1 holds the input of the first call
\* with the key the second call returned
C14_Witness ==
    /\ AllReturned
    /\ Len(log) = 2
    /\ Inputs[1] = StrArgs(log[1].data)
    /\ Outputs[1] = log[2].key
    /\ Outputs[1] # log[1].key
    /\ log[1].data # log[2].data

\* C16: under any interleaving of traced store calls, failing ones
\* included, len(outputs) <= counter <= len(inputs) as long as no flush
\* occurs, and the three are equal once all calls have completed
\* successfully.
C16_OutputsCounterInputs ==
    /\ Len(Outputs) <= ReplayCount
    /\ ReplayCount <= Len(Inputs)
    /\ AllReturned =>
           /\ Len(Outputs) = Len(log)
           /\ ReplayCount = Len(log)
           /\ Len(Inputs) = Len(log)

\* one call failed, one is between its RPUSH of the input and its INCR, one
\* has returned: 1 < 2 < 3
C16_Witness ==
    /\ Len(Outputs) = 1
    /\ ReplayCount = 2
    /\ Len(Inputs) = 3
    /\ Len(FailedCalls) = 1
    /\ \E c \in Callers : pc[c] = "cc_incr"

(***************************************************************************)
(* A new Cache (exercise.py:112-115).  log holds the calls of store since  *)
(* the last flushdb; drawn counts the keys drawn over the whole behaviour. *)
(***************************************************************************)
\* the database right after Cache(): the counter of store reads 0, both
\* lists are empty, get finds no key stored before
Flushed ==
    /\ ReplayCount = 0
    /\ Inputs = <<>>
    /\ Outputs = <<>>
    /\ \A k \in AskedKeys : CacheGet(k, "none") = PyNone

\* C18 as stated: right after a new Cache is constructed the counter of
\* store reads 0, both history lists are empty and get returns None for
\* every key stored earlier; after every completed call from then on the
\* counter, len(inputs) and len(outputs) all equal the number of calls
\* made since that construction.
C18_FlushedThenAllEqual ==
    /\ last.name = "Cache" => Flushed
    /\ (resets > 0 /\ Idle) =>
           /\ ReplayCount = Len(log)
           /\ Len(Inputs) = Len(log)
           /\ Len(Outputs) = Len(log)

\* C18 amended: right after a new Cache is constructed the counter of store
\* reads 0, both history lists are empty and get returns None for every key
\* stored earlier; whenever no call is running from then on, the counter
\* and len(inputs) equal the number of calls made since that construction
\* and len(outputs) equals the number of those that returned, so the three
\* are equal when none of them failed.
C18_FlushedThenCountsByOutcome ==
    /\ last.name = "Cache" => Flushed
    /\ (resets > 0 /\ Idle) =>
           /\ ReplayCount = Len(log)
           /\ Len(Inputs) = Len(log)
           /\ Len(Outputs) = Len(ReturnedCalls)
           /\ (FailedCalls = <<>> => Len(Outputs) = Len(log))

\* a Cache was constructed after a call of store had returned a key, and
\* one call of store has returned since
C18_Witness ==
    /\ resets = 1
    /\ Idle
    /\ drawn = 2
    /\ Len(log) = 1
    /\ log[1].status = "returned"
    /\ CacheGet(KeyStr(1), "none") = PyNone
    /\ CacheGet(KeyStr(2), "none") # PyNone
    /\ ReplayCount = 1
====
